---- MODULE Spec2Model ----
(***************************************************************************)
(* A model of DataStream (src/src/data-stream.ts): a byte buffer with a    *)
(* read/write cursor, auto-growth, and two descriptor codecs layered on    *)
(* it (the TypeDef dialect read/write and the struct dialect               *)
(* readStruct/readType).                                                   *)
(*                                                                         *)
(* A stream is a record                                                    *)
(*   buf  : the bytes of _buffer (Len(buf) is the capacity)                *)
(*   off  : _byteOffset                                                    *)
(*   dvo  : the byteOffset the current _dataView was constructed with      *)
(*   blen : _byteLength (offset + logical length)                          *)
(*   pos  : position                                                       *)
(*   le   : endianness (LITTLE_ENDIAN = TRUE, BIG_ENDIAN = FALSE)          *)
(*   dyn  : _dynamicSize                                                   *)
(*   fail : failurePosition                                                *)
(* Every method is an operator from a stream (and arguments) to a result   *)
(* record [s, v, st]: the stream after the call, the value returned, and   *)
(* st = "ok" (returned v), "null" (returned null/undefined) or "throw"     *)
(* (raised; s is the stream as the exception left it).                     *)
(***************************************************************************)
EXTENDS Integers, Sequences, FiniteSets, TLC

VARIABLES ds, pre, op, ret, steps, native, pc, wlog

vars == <<ds, pre, op, ret, steps, native, pc, wlog>>

(* ------------------------------ bounds -------------------------------- *)

\* Operations applied to one stream in a run of the stream machine.
MaxSteps == 3

\* Longest array / string (in elements / characters) of an encoded value.
MaxArr == 2

\* Attempts after which an open-ended decode loop is reported as not ending.
MaxIter == 6

(* --------------------------- scalar layout ---------------------------- *)

ScalarTypes ==
  {"Int8", "Uint8", "Int16", "Uint16", "Int32", "Uint32", "Float32", "Float64"}

\* BYTES_PER_ELEMENT / the DataView accessor's width.
Width(T) ==
  CASE T \in {"Int8", "Uint8"} -> 1
    [] T \in {"Int16", "Uint16"} -> 2
    [] T \in {"Int32", "Uint32", "Float32"} -> 4
    [] T = "Float64" -> 8

Reverse(q) == [i \in 1..Len(q) |-> q[Len(q) + 1 - i]]

Zeros(n) == [i \in 1..n |-> 0]

\* Byte k (0 = least significant) of the two's-complement form of integer v.
ByteAt(v, k) ==
  CASE k = 0 -> v % 256
    [] k = 1 -> (v \div 256) % 256
    [] k = 2 -> (v \div 65536) % 256
    [] k = 3 -> (v \div 16777216) % 256

(* The big-endian bytes DataView.setX stores for value v.  Integers up to  *)
(* 32 bits signed are integers; a Uint32 is [hi, lo] (16-bit halves); a    *)
(* Float32 is its IEEE-754 fields [s, e, m]; a Float64 is [s, e, m1, m2,   *)
(* m3] with the 52-bit fraction split 20/16/16.                            *)
toBytesBE(T, v) ==
  CASE T \in {"Int8", "Uint8"} -> <<ByteAt(v, 0)>>
    [] T \in {"Int16", "Uint16"} -> <<ByteAt(v, 1), ByteAt(v, 0)>>
    [] T = "Int32" -> <<ByteAt(v, 3), ByteAt(v, 2), ByteAt(v, 1), ByteAt(v, 0)>>
    [] T = "Uint32" ->
         <<ByteAt(v.hi, 1), ByteAt(v.hi, 0), ByteAt(v.lo, 1), ByteAt(v.lo, 0)>>
    [] T = "Float32" ->
         <<v.s * 128 + (v.e \div 2), (v.e % 2) * 128 + ByteAt(v.m, 2),
           ByteAt(v.m, 1), ByteAt(v.m, 0)>>
    [] T = "Float64" ->
         <<v.s * 128 + (v.e \div 16), (v.e % 16) * 16 + ByteAt(v.m1, 2),
           ByteAt(v.m1, 1), ByteAt(v.m1, 0),
           ByteAt(v.m2, 1), ByteAt(v.m2, 0), ByteAt(v.m3, 1), ByteAt(v.m3, 0)>>

\* The value DataView.getX returns for big-endian bytes b.
fromBytesBE(T, b) ==
  CASE T = "Uint8" -> b[1]
    [] T = "Int8" -> IF b[1] >= 128 THEN b[1] - 256 ELSE b[1]
    [] T = "Uint16" -> b[1] * 256 + b[2]
    [] T = "Int16" -> (IF b[1] >= 128 THEN b[1] - 256 ELSE b[1]) * 256 + b[2]
    [] T = "Int32" ->
         (IF b[1] >= 128 THEN b[1] - 256 ELSE b[1]) * 16777216
           + b[2] * 65536 + b[3] * 256 + b[4]
    [] T = "Uint32" -> [hi |-> b[1] * 256 + b[2], lo |-> b[3] * 256 + b[4]]
    [] T = "Float32" ->
         [s |-> b[1] \div 128,
          e |-> (b[1] % 128) * 2 + (b[2] \div 128),
          m |-> (b[2] % 128) * 65536 + b[3] * 256 + b[4]]
    [] T = "Float64" ->
         [s |-> b[1] \div 128,
          e |-> (b[1] % 128) * 16 + (b[2] \div 16),
          m1 |-> (b[2] % 16) * 65536 + b[3] * 256 + b[4],
          m2 |-> b[5] * 256 + b[6],
          m3 |-> b[7] * 256 + b[8]]

\* Bytes in the order the given endianness lays them out.
encode(T, v, le) == IF le THEN Reverse(toBytesBE(T, v)) ELSE toBytesBE(T, v)

\* Every scalar taken as little-endian.
decodeLE(T, b, le) == fromBytesBE(T, Reverse(b))

decode(T, b, le) == fromBytesBE(T, IF le THEN Reverse(b) ELSE b)

(* ------------------------------ results ------------------------------- *)

Res(s, v, st) == [s |-> s, v |-> v, st |-> st]

Ok(s, v) == Res(s, v, "ok")

Null(s) == Res(s, <<>>, "null")

Throw(s) == Res(s, <<>>, "throw")

(* --------------------------- buffer and size -------------------------- *)

\* get byteLength
byteLength(s) == s.blen - s.off

\* set buffer: a new DataView at _byteOffset, _byteLength = capacity.
setBuffer(s, b) == [s EXCEPT !.buf = b, !.dvo = s.off, !.blen = Len(b)]

growExact(blen, req) == IF req > blen THEN req ELSE blen

RECURSIVE doubleUntil(_, _)
\* while (req > blen) blen *= 2
doubleUntil(blen, req) == IF req > blen THEN doubleUntil(blen * 2, req) ELSE blen

_reallocNoCopy(s, extra) ==
  IF ~s.dyn THEN s
  ELSE LET req == s.off + s.pos + extra
           cap == Len(s.buf)
       IN IF req <= cap
          THEN (IF req > s.blen THEN [s EXCEPT !.blen = req] ELSE s)
          ELSE LET n == doubleUntil(IF cap < 1 THEN 1 ELSE cap, req)
               IN [setBuffer(s, Zeros(n)) EXCEPT !.blen = req]

_reallocLengthOnly(s, extra) ==
  IF ~s.dyn THEN s
  ELSE LET req == s.off + s.pos + extra
       IN IF req > s.blen THEN [s EXCEPT !.blen = req] ELSE s

_realloc(s, extra) ==
  IF ~s.dyn THEN s
  ELSE LET req == s.off + s.pos + extra
           cap == Len(s.buf)
       IN IF req <= cap
          THEN (IF req > s.blen THEN [s EXCEPT !.blen = req] ELSE s)
          ELSE LET n == doubleUntil(IF cap < 1 THEN 1 ELSE cap, req)
               IN [setBuffer(s, s.buf \o Zeros(n - cap)) EXCEPT !.blen = req]

_trimAllocKeep(s) == Ok(s, <<>>)

\* _trimAlloc; raises when _byteLength exceeds the capacity (the source
\* view of dst.length bytes does not fit) or the DataView offset does.
_trimAlloc(s) ==
  IF s.blen = Len(s.buf) THEN Ok(s, <<>>)
  ELSE IF s.blen < 0 \/ s.blen > Len(s.buf) \/ s.off > s.blen THEN Throw(s)
  ELSE Ok(setBuffer(s, SubSeq(s.buf, 1, s.blen)), <<>>)

\* set dynamicSize
setDynamicSize(s, v) ==
  IF ~v
  THEN LET t == _trimAlloc(s)
       IN IF t.st = "throw" THEN t ELSE Ok([t.s EXCEPT !.dyn = v], <<>>)
  ELSE Ok([s EXCEPT !.dyn = v], <<>>)

\* seek(pos) for a finite pos.
seek(s, p) ==
  LET lim == IF byteLength(s) < p THEN byteLength(s) ELSE p
  IN [s EXCEPT !.pos = IF lim < 0 THEN 0 ELSE lim]

\* seek(pos) for pos one of NaN, Infinity, -Infinity: npos = Math.max(0,
\* Math.min(byteLength, pos)) is NaN, max(0, byteLength) or 0, and only a
\* NaN or infinite npos is replaced by 0.
seekNonFinite(s, x) ==
  [s EXCEPT !.pos = IF x = "Infinity" /\ byteLength(s) > 0 THEN byteLength(s)
                    ELSE 0]

isEof(s) == s.pos >= byteLength(s)

\* buf with bytes b stored from 0-based index at.
SetBytes(buf, at, b) ==
  IF at >= 0 /\ at + Len(b) <= Len(buf)
  THEN SubSeq(buf, 1, at) \o b \o SubSeq(buf, at + Len(b) + 1, Len(buf))
  ELSE [i \in 1..Len(buf) |->
          IF i > at /\ i <= at + Len(b) THEN b[i - at] ELSE buf[i]]

(* ----------------------------- scalars -------------------------------- *)

\* The stream's endianness whatever the argument.
EndianOfStream(s, e) == s.le

\* e == null ? this.endianness : e   ("def" stands for an omitted argument)
Endian(s, e) == IF e = "def" THEN s.le ELSE e = "le"

\* The DataView covers the buffer from dvo to its end.
InView(s, p, w) == p >= 0 /\ s.dvo + p + w <= Len(s.buf)

readScalarEarlyAdvance(s, T, e) ==
  LET w == Width(T)
  IN IF ~InView(s, s.pos, w) THEN Throw([s EXCEPT !.pos = s.pos + w])
     ELSE Ok([s EXCEPT !.pos = s.pos + w],
             decode(T, SubSeq(s.buf, s.dvo + s.pos + 1, s.dvo + s.pos + w),
                    Endian(s, e)))

\* readInt8 .. readFloat64: v = _dataView.getX(position, e); position += w.
readScalar(s, T, e) ==
  LET w == Width(T)
  IN IF ~InView(s, s.pos, w) THEN Throw(s)
     ELSE Ok([s EXCEPT !.pos = s.pos + w],
             decode(T, SubSeq(s.buf, s.dvo + s.pos + 1, s.dvo + s.pos + w),
                    Endian(s, e)))

\* writeInt8 .. writeFloat64: _realloc(w); _dataView.setX(position, v, e);
\* position += w.
writeScalar(s, T, v, e) ==
  LET w == Width(T)
      g == _realloc(s, w)
  IN IF ~InView(g, g.pos, w) THEN Throw(g)
     ELSE Ok([g EXCEPT !.buf = SetBytes(g.buf, g.dvo + g.pos,
                                         encode(T, v, Endian(g, e))),
                       !.pos = g.pos + w], <<>>)

readUint8(s) == readScalar(s, "Uint8", "def")

readUint16(s, e) == readScalar(s, "Uint16", e)

writeUint8(s, v) == writeScalar(s, "Uint8", v, "def")

writeUint16(s, v, e) == writeScalar(s, "Uint16", v, e)

(* ------------------------------ arrays -------------------------------- *)

\* The k-th (1-based) group of w bytes of b.
Group(b, w, k) == SubSeq(b, (k - 1) * w + 1, k * w)

\* flipArrayEndianness: reverse the bytes of every element in place.
flipArrayEndianness(b, w) ==
  [i \in 1..Len(b) |-> b[((i - 1) \div w) * w + (w - ((i - 1) % w))]]

\* arrayToNative(array, arrayIsLittleEndian)
arrayToNative(b, w, isLE) == IF isLE = native THEN b ELSE flipArrayEndianness(b, w)

\* The elements a typed array shows for its native-order bytes b.
Elements(T, b) ==
  [k \in 1..(Len(b) \div Width(T)) |-> decode(T, Group(b, Width(T), k), native)]

\* The native-order bytes of a typed array holding the elements a (one
\* byte each for the 8-bit types).
RECURSIVE NativeBytes(_, _)
NativeBytes(T, a) ==
  IF Width(T) = 1 THEN [i \in 1..Len(a) |-> ByteAt(a[i], 0)]
  ELSE IF a = <<>> THEN <<>>
  ELSE encode(T, Head(a), native) \o NativeBytes(T, Tail(a))

(* readInt8Array .. readFloat64Array(length, e).  With the length omitted *)
(* the code computes byteLength - position / w, so the byte count handed  *)
(* to memcpy is num = byteLength * w - position and the typed array holds *)
(* trunc(num / w) elements.  new XArray(length) raises for length <= -1;  *)
(* this.buffer trims the allocation; memcpy raises when either view does  *)
(* not fit.                                                                *)
readArray(s, T, hasLen, n, e) ==
  LET w == Width(T)
      num == IF hasLen THEN n * w
             ELSE IF w = 1 THEN byteLength(s) - s.pos
             ELSE byteLength(s) * w - s.pos
      cnt == IF hasLen THEN n ELSE IF num <= 0 THEN 0 ELSE num \div w
  IN IF num <= 0 - w THEN Throw(s)
     ELSE LET t == _trimAlloc(s)
              g == t.s
              from == g.off + g.pos
          IN IF t.st = "throw" THEN t
             ELSE IF num < 0 \/ num > cnt * w \/ from < 0 \/ from + num > Len(g.buf)
             THEN Throw(g)
             ELSE Ok([g EXCEPT !.pos = g.pos + cnt * w],
                     Elements(T, arrayToNative(SubSeq(g.buf, from + 1, from + num),
                                               w, Endian(g, e))))

\* mapUint8Array(length): _realloc(length); new Uint8Array(_buffer,
\* byteOffset + position, length); position += length.
mapUint8Array(s, n) ==
  LET g == _realloc(s, n)
      from == g.off + g.pos
  IN IF n < 0 \/ from < 0 \/ from + n > Len(g.buf) THEN Throw(g)
     ELSE Ok([g EXCEPT !.pos = g.pos + n], SubSeq(g.buf, from + 1, from + n))

RECURSIVE writeEach(_, _, _, _)
\* for (i = 0; i < arr.length; i++) this.writeX(arr[i], e)
writeEach(s, T, a, e) ==
  IF a = <<>> THEN Ok(s, <<>>)
  ELSE LET r == writeScalar(s, T, Head(a), e)
       IN IF r.st = "throw" THEN r ELSE writeEach(r.s, T, Tail(a), e)

(* writeInt8Array .. writeFloat64Array(arr, e): a typed array of the       *)
(* right kind at an aligned address is copied with memcpy and swizzled in  *)
(* place by mapXArray; anything else is written element by element.        *)
writeArray(s, T, a, typed, e) ==
  LET w == Width(T)
      g == _realloc(s, Len(a) * w)
      from == g.off + g.pos
  IN IF typed /\ from % w = 0
     THEN IF from < 0 \/ from + Len(a) * w > Len(g.buf) THEN Throw(g)
          ELSE LET copied == SetBytes(g.buf, from, NativeBytes(T, a))
                   h == _realloc([g EXCEPT !.buf = copied], Len(a) * w)
                   sw == IF w = 1 THEN NativeBytes(T, a)
                         ELSE arrayToNative(NativeBytes(T, a), w, Endian(h, e))
               IN Ok([h EXCEPT !.buf = SetBytes(h.buf, from, sw),
                               !.pos = h.pos + Len(a) * w], <<>>)
     ELSE writeEach(g, T, a, e)

(* ------------------------------ UTF-8 --------------------------------- *)

\* TextEncoder("utf-8").encode of one UTF-16 code unit below the
\* surrogate range.
Utf8Char(c) ==
  IF c < 128 THEN <<c>>
  ELSE IF c < 2048 THEN <<192 + (c \div 64), 128 + (c % 64)>>
  ELSE <<224 + (c \div 4096), 128 + ((c \div 64) % 64), 128 + (c % 64)>>

RECURSIVE Utf8Encode(_)
\* TextEncoder("utf-8").encode(str); ASCII text is its own encoding.
Utf8Encode(str) ==
  IF \A i \in 1..Len(str) : str[i] < 128 THEN str
  ELSE Utf8Char(Head(str)) \o Utf8Encode(Tail(str))

IsCont(b, i) == i <= Len(b) /\ b[i] >= 128 /\ b[i] < 192

RECURSIVE Utf8Decode(_, _)
\* TextDecoder("utf-8").decode from index i on: one-, two- and three-byte
\* sequences; any other byte decodes to U+FFFD.  A run of one-byte
\* sequences up to the end decodes to itself.
Utf8Decode(b, i) ==
  IF i > Len(b) THEN <<>>
  ELSE IF \A k \in i..Len(b) : b[k] < 128 THEN SubSeq(b, i, Len(b))
  ELSE IF b[i] < 128 THEN <<b[i]>> \o Utf8Decode(b, i + 1)
  ELSE IF b[i] >= 194 /\ b[i] < 224 /\ IsCont(b, i + 1)
       THEN <<(b[i] - 192) * 64 + (b[i + 1] - 128)>> \o Utf8Decode(b, i + 2)
  ELSE IF b[i] >= 224 /\ b[i] < 240 /\ IsCont(b, i + 1) /\ IsCont(b, i + 2)
          /\ (b[i] - 224) * 4096 + (b[i + 1] - 128) * 64 >= 2048
       THEN <<(b[i] - 224) * 4096 + (b[i + 1] - 128) * 64 + (b[i + 2] - 128)>>
              \o Utf8Decode(b, i + 3)
  ELSE <<65533>> \o Utf8Decode(b, i + 1)

\* writeUtf8WithLen(s): writeUint16(arr.length).writeUint8Array(arr)
writeUtf8WithLen(s, str) ==
  LET arr == Utf8Encode(str)
      r == writeUint16(s, Len(arr), "def")
  IN IF r.st = "throw" THEN r ELSE writeArray(r.s, "Uint8", arr, TRUE, "def")

\* readUtf8WithLen(): len = readUint16(); decode(mapUint8Array(len))
readUtf8WithLen(s) ==
  LET r == readUint16(s, "def")
  IN IF r.st = "throw" THEN r
     ELSE LET m == mapUint8Array(r.s, r.v)
          IN IF m.st = "throw" THEN m ELSE Ok(m.s, Utf8Decode(m.v, 1))

(* ------------------------------ strings ------------------------------- *)

Min(a, b) == IF a < b THEN a ELSE b

\* readString(length, encoding)
readString(s, hasLen, n, encoding) ==
  IF encoding = "ASCII"
  THEN mapUint8Array(s, IF hasLen THEN n ELSE byteLength(s) - s.pos)
  ELSE LET m == mapUint8Array(s, IF hasLen THEN n ELSE 0)
       IN IF m.st = "throw" THEN m ELSE Ok(m.s, Utf8Decode(m.v, 1))

RECURSIVE firstZero(_, _, _, _)
\* for (; i < len && u8[i] !== 0; i++) {}
firstZero(buf, from, i, len) ==
  IF i < len /\ ~(from + i + 1 <= Len(buf) /\ buf[from + i + 1] = 0)
  THEN firstZero(buf, from, i + 1, len)
  ELSE i

\* readCString(length)
readCString(s, hasLen, n) ==
  LET blen == byteLength(s) - s.pos
      from == s.off + s.pos
      len == IF hasLen THEN Min(n, blen) ELSE blen
  IN IF from < 0 \/ from > Len(s.buf) THEN Throw(s)
     ELSE LET i == firstZero(s.buf, from, 0, len)
              m == mapUint8Array(s, i)
          IN IF m.st = "throw" THEN m
             ELSE IF hasLen THEN Ok([m.s EXCEPT !.pos = m.s.pos + (len - i)], m.v)
             ELSE IF i # blen THEN Ok([m.s EXCEPT !.pos = m.s.pos + 1], m.v)
             ELSE m

\* readUCS2String(length, endianness): the code units of
\* readUint16Array(length, endianness)
readUCS2String(s, hasLen, n, e) == readArray(s, "Uint16", hasLen, n, e)

\* str cut or zero-padded to exactly n code units.
PadTo(str, n) ==
  [i \in 1..(IF n < 0 THEN 0 ELSE n) |-> IF i <= Len(str) THEN str[i] ELSE 0]

\* writeString(s, encoding, length)
writeString(s, str, encoding, hasLen, n) ==
  IF encoding = "ASCII"
  THEN writeEach(s, "Uint8", IF hasLen THEN PadTo(str, n) ELSE str, "def")
  ELSE writeArray(s, "Uint8",
                  Utf8Encode(IF hasLen THEN SubSeq(str, 1, Min(n, Len(str))) ELSE str),
                  TRUE, "def")

\* writeCString(s, length)
writeCString(s, str, hasLen, n) ==
  writeEach(s, "Uint8", IF hasLen THEN PadTo(str, n) ELSE str \o <<0>>, "def")

(* -------------------------- TypeDef dialect --------------------------- *)

(* A TypeDef is a sequence of <<name, type>>; a type is                   *)
(*   [k |-> "T", t |-> name, star |-> BOOLEAN, def |-> <<>>]  a Type      *)
(*       string, star when it ends with '*'                                *)
(*   [k |-> "def", t |-> "", star |-> FALSE, def |-> TypeDef]  nested      *)
TScalar(t) == [k |-> "T", t |-> t, star |-> FALSE, def |-> <<>>]

TArray(t) == [k |-> "T", t |-> t, star |-> TRUE, def |-> <<>>]

TNested(d) == [k |-> "def", t |-> "", star |-> FALSE, def |-> d]

\* this["read" + t]()
readByName(s, t) ==
  CASE t \in ScalarTypes -> readScalar(s, t, "def")
    [] t = "Utf8WithLen" -> readUtf8WithLen(s)
    [] t = "CString" -> readCString(s, FALSE, 0)
    [] t = "String" -> readString(s, FALSE, 0, "ASCII")
    [] OTHER -> Throw(s)

\* this["read" + X + "Array"](len)
readArrayByName(s, t, len) ==
  IF t \in ScalarTypes THEN readArray(s, t, TRUE, len, "def") ELSE Throw(s)

RECURSIVE read(_, _)
RECURSIVE readFields(_, _, _, _)
\* the body of read's for..of loop from field i on, o the object so far
readFields(s, def, i, o) ==
  IF i > Len(def) THEN Ok(s, o)
  ELSE LET v == def[i][1]
           t == def[i][2]
           r == IF t.k = "T"
                THEN IF t.star
                     THEN LET len == readUint16(s, "def")
                          IN IF len.st = "throw" THEN len
                             ELSE readArrayByName(len.s, t.t, len.v)
                     ELSE readByName(s, t.t)
                ELSE read(s, t.def)
       IN IF r.st = "throw" THEN r
          ELSE readFields(r.s, def, i + 1, (v :> r.v) @@ o)

\* read(def)
read(s, def) == readFields(s, def, 1, <<>>)

\* this["write" + t](v)
writeByName(s, t, v) ==
  CASE t \in ScalarTypes -> writeScalar(s, t, v, "def")
    [] t = "Utf8WithLen" -> writeUtf8WithLen(s, v)
    [] t = "CString" -> writeCString(s, v, FALSE, 0)
    [] t = "String" -> writeString(s, v, "ASCII", FALSE, 0)
    [] OTHER -> Throw(s)

\* this["write" + X + "Array"](arr)
writeArrayByName(s, t, arr, typed) ==
  IF t \in ScalarTypes THEN writeArray(s, t, arr, typed, "def") ELSE Throw(s)

writeFieldNoCount(s, t, val, typed) ==
  IF t.star THEN writeArrayByName(s, t.t, val, typed) ELSE writeByName(s, t.t, val)

\* one string-typed field of write: a '*' type writes the element count
\* as a Uint16 and then the array; any other type calls its writer.
writeField(s, t, val, typed) ==
  IF t.star
  THEN LET c == writeUint16(s, Len(val), "def")
       IN IF c.st = "throw" THEN c ELSE writeArrayByName(c.s, t.t, val, typed)
  ELSE writeByName(s, t.t, val)

RECURSIVE write(_, _, _, _)
RECURSIVE writeFields(_, _, _, _, _)
\* the body of write's for..of loop from field i on
writeFields(s, def, i, o, typed) ==
  IF i > Len(def) THEN Ok(s, <<>>)
  ELSE LET v == def[i][1]
           t == def[i][2]
           r == IF t.k = "T" THEN writeField(s, t, o[v], typed)
                ELSE write(s, t.def, o[v], typed)
       IN IF r.st = "throw" THEN r ELSE writeFields(r.s, def, i + 1, o, typed)

\* write(def, o); typed says whether o's arrays are typed arrays of the
\* field's element type or plain number arrays.
write(s, def, o, typed) == writeFields(s, def, 1, o, typed)

(* --------------------------- struct dialect --------------------------- *)

(* A struct definition is a sequence of <<name, type>> (the flat array    *)
(* [name, type, name, type, ...] of the code).  A type is one of           *)
(*   [k |-> "name", n, sfx, len, cs]  a type string: base name n, an 'le' *)
(*        or 'be' suffix sfx (or ""), the ':len' part and the ',charset'  *)
(*        part (cs = "" when absent)                                       *)
(*   [k |-> "arr", ta, len]           ['[]', ta, len]                      *)
(*   [k |-> "struct", def]            a nested struct definition           *)
(*   [k |-> "fn", f] / [k |-> "get", f]   a callback / {get: callback}     *)
(* A length is [k |-> "none"], [k |-> "lit", n] (an integer or its         *)
(* digits), [k |-> "ref", name] (text naming a field), [k |-> "star"]     *)
(* ('*') or [k |-> "fn", f] (a callback).  A "ref" length whose name is   *)
(* not a field decoded so far is parsed as a number and gives NaN.         *)
LNone == [k |-> "none", n |-> 0, name |-> ""]

LLit(n) == [k |-> "lit", n |-> n, name |-> ""]

LRef(name) == [k |-> "ref", n |-> 0, name |-> name]

LStar == [k |-> "star", n |-> 0, name |-> "*"]

LFn(f) == [k |-> "fn", n |-> 0, name |-> f]

SName(n) == [k |-> "name", n |-> n, sfx |-> "", len |-> LNone, cs |-> ""]

SNameE(n, sfx) == [k |-> "name", n |-> n, sfx |-> sfx, len |-> LNone, cs |-> ""]

SNameLen(n, len) == [k |-> "name", n |-> n, sfx |-> "", len |-> len, cs |-> ""]

SArr(ta, len) == [k |-> "arr", ta |-> ta, len |-> len]

SStruct(def) == [k |-> "struct", def |-> def]

SFn(f) == [k |-> "fn", f |-> f]

SGet(f) == [k |-> "get", f |-> f]

\* The scalar a struct-dialect base name stands for.
ScalarOf(n) ==
  CASE n = "uint8" -> "Uint8" [] n = "int8" -> "Int8"
    [] n = "uint16" -> "Uint16" [] n = "int16" -> "Int16"
    [] n = "uint32" -> "Uint32" [] n = "int32" -> "Int32"
    [] n = "float32" -> "Float32" [] n = "float64" -> "Float64"

ScalarNames ==
  {"uint8", "int8", "uint16", "int16", "uint32", "int32", "float32", "float64"}

\* Whether readType's switch has a case for the scalar name n + sfx.
HasScalarCase(n, sfx) ==
  /\ n \in ScalarNames
  /\ (sfx = "" \/ n \notin {"uint8", "int8"})

\* The callbacks when each is handed a fresh empty struct.
callFnEmptyStruct(f, s, struct) ==
  CASE f = "fnFields" -> Ok(s, {})
    [] f = "fnMagic" ->
         LET r == readUint8(s)
         IN IF r.st = "ok" /\ r.v # 1 THEN Null(r.s) ELSE r
    [] f = "fnNull" -> Null(s)
    [] f = "fnByte" -> readUint8(s)

\* The callbacks a descriptor may carry (StructReadFn), by name:
\*   fnMagic  reads a byte and returns it, or null when it is not 1
\*   fnNull   returns null without reading
\*   fnByte   returns readUint8()
\*   fnFields returns the names of the fields of the struct it is handed
callFn(f, s, struct) ==
  CASE f = "fnFields" -> Ok(s, DOMAIN struct)
    [] f = "fnMagic" ->
         LET r == readUint8(s)
         IN IF r.st = "ok" /\ r.v # 1 THEN Null(r.s) ELSE r
    [] f = "fnNull" -> Null(s)
    [] f = "fnByte" -> readUint8(s)

\* The length callbacks (LenFn), by name: lenTwo returns 2, lenNPlusOne
\* returns struct.n + 1, lenLeft returns the number of whole elements of
\* the array type t between the position of the stream and its end.
callLen(f, struct, s, t) ==
  CASE f = "lenTwo" -> 2
    [] f = "lenNPlusOne" -> struct["n"] + 1
    [] f = "lenLeft" ->
         LET left == byteLength(s) - s.pos
         IN IF left < 0 THEN 0 ELSE left \div Width(ScalarOf(t.ta.n))

\* A length taken as a literal even when it names a decoded field.
resolveLenLiteral(len, struct) == len.n

\* parseInt(struct[len] != null ? struct[len] : len, 10) for a length
\* that is a literal or names a decoded integer field.
resolveLen(len, struct) ==
  IF len.k = "ref" /\ len.name \in DOMAIN struct THEN struct[len.name] ELSE len.n

\* struct[len] == null for a length that is a name: parseInt(len, 10) is NaN.
isNaNLen(len, struct) == len.k = "ref" /\ len.name \notin DOMAIN struct

RECURSIVE readType(_, _, _)
RECURSIVE readStruct(_, _)
RECURSIVE readStructFields(_, _, _, _, _)
RECURSIVE starLoop(_, _, _, _, _)
RECURSIVE fixedLoop(_, _, _, _, _)
RECURSIVE nameStarLoop(_, _, _, _, _)
RECURSIVE nameFixedLoop(_, _, _, _, _)

readStructFieldsNoRestore(s, def, i, struct, p) ==
  IF i > Len(def) THEN Ok(s, struct)
  ELSE LET r == readType(s, def[i][2], struct)
       IN IF r.st = "null"
          THEN Null([r.s EXCEPT !.fail = IF r.s.fail = 0 THEN r.s.pos ELSE r.s.fail])
          ELSE IF r.st # "ok" THEN r
          ELSE readStructFields(r.s, def, i + 1, (def[i][1] :> r.v) @@ struct, p)

\* readStruct's loop from field i on; p is the position at entry.
readStructFields(s, def, i, struct, p) ==
  IF i > Len(def) THEN Ok(s, struct)
  ELSE LET r == readType(s, def[i][2], struct)
       IN IF r.st = "null"
          THEN Null([r.s EXCEPT !.fail = IF r.s.fail = 0 THEN r.s.pos ELSE r.s.fail,
                                !.pos = p])
          ELSE IF r.st # "ok" THEN r
          ELSE readStructFields(r.s, def, i + 1, (def[i][1] :> r.v) @@ struct, p)

\* readStruct(structDefinition)
readStruct(s, def) == readStructFields(s, def, 1, <<>>, s.pos)

starLoopNoRestore(s, ta, struct, acc, fuel) ==
  IF fuel = 0 THEN Res(s, acc, "diverge")
  ELSE LET r == readType(s, ta, struct)
       IN IF r.st = "ok" THEN starLoop(r.s, ta, struct, Append(acc, r.v), fuel - 1)
          ELSE IF r.st = "diverge" THEN r
          ELSE Ok(r.s, acc)

(* ['[]', ta, '*'] for a ta that is not a string: while (true) { p =       *)
(* position; try { o = readType(ta); if (o == null) { position = p;       *)
(* break; } v.push(o); } catch (e) { position = p; break; } }             *)
starLoop(s, ta, struct, acc, fuel) ==
  IF fuel = 0 THEN Res(s, acc, "diverge")
  ELSE LET r == readType(s, ta, struct)
       IN IF r.st = "ok" THEN starLoop(r.s, ta, struct, Append(acc, r.v), fuel - 1)
          ELSE IF r.st = "diverge" THEN r
          ELSE Ok([r.s EXCEPT !.pos = s.pos], acc)

\* for (i = 0; i < length; i++) { u = readType(ta); if (u == null) return
\* null; v[i] = u; }
fixedLoop(s, ta, struct, acc, n) ==
  IF Len(acc) >= n THEN Ok(s, acc)
  ELSE LET r == readType(s, ta, struct)
       IN IF r.st = "ok" THEN fixedLoop(r.s, ta, struct, Append(acc, r.v), n)
          ELSE r

\* while (!isEof()) { u = readType(ta); if (u == null) break; v.push(u); }
nameStarLoop(s, ta, struct, acc, fuel) ==
  IF isEof(s) THEN Ok(s, acc)
  ELSE IF fuel = 0 THEN Res(s, acc, "diverge")
  ELSE LET r == readType(s, ta, struct)
       IN IF r.st = "ok"
          THEN nameStarLoop(r.s, ta, struct, Append(acc, r.v), fuel - 1)
          ELSE IF r.st = "null" THEN Ok(r.s, acc)
          ELSE r

\* for (i = 0; i < length; i++) v[i] = readType(ta)   (null elements kept)
nameFixedLoop(s, ta, struct, acc, n) ==
  IF Len(acc) >= n THEN Ok(s, acc)
  ELSE LET r == readType(s, ta, struct)
       IN IF r.st \in {"ok", "null"}
          THEN nameFixedLoop(r.s, ta, struct, Append(acc, r.v), n)
          ELSE r

(* The default branch of readType's switch for t = ['[]', ta, len].  With  *)
(* a NaN length the typed-array readers build an array of 0 elements and  *)
(* copy 0 bytes, while new Array(NaN) raises a RangeError.                 *)
readTypeArray(s, t, struct) ==
  LET ta == t.ta
      len == t.len
      nan == isNaNLen(len, struct)
      length == IF len.k = "fn" THEN callLen(len.name, struct, s, t)
                ELSE resolveLen(len, struct)
      e == IF ta.k = "name" /\ ta.sfx # "" THEN ta.sfx ELSE "def"
  IN IF ta.k = "name"
     THEN IF ta.len.k # "none" \/ ta.cs # "" THEN Null(s)
          ELSE IF ta.n \in ScalarNames
          THEN readArray(s, ScalarOf(ta.n), len.k # "star", IF nan THEN 0 ELSE length, e)
          ELSE IF ta.n \in {"cstring", "utf16string", "string"} /\ ta.sfx = ""
          THEN IF len.k = "star" THEN nameStarLoop(s, ta, struct, <<>>, MaxIter)
               ELSE IF nan \/ length < 0 THEN Throw(s)
               ELSE nameFixedLoop(s, ta, struct, <<>>, length)
          ELSE Null(s)
     ELSE IF len.k = "star" THEN starLoop(s, ta, struct, <<>>, MaxIter)
          ELSE IF nan \/ length < 0 THEN Throw(s)
          ELSE fixedLoop(s, ta, struct, <<>>, length)

(* readType for a type string (after the split at ':' and ',').  With a    *)
(* NaN lengthOverride the readers take 0 elements and the final position    *)
(* = pos + lengthOverride makes the position NaN: the result is marked     *)
(* "nan" (a value was returned, the position is NaN) and what later reads  *)
(* do from a NaN position is not modelled.                                 *)
readTypeName(s, t, struct) ==
  LET has == t.len.k # "none"
      nan == isNaNLen(t.len, struct)
      lo == IF nan THEN 0 ELSE resolveLen(t.len, struct)
      r == IF HasScalarCase(t.n, t.sfx)
           THEN readScalar(s, ScalarOf(t.n), IF t.sfx = "" THEN "def" ELSE t.sfx)
           ELSE IF t.n = "cstring" /\ t.sfx = "" THEN readCString(s, has, lo)
           ELSE IF t.n = "string" /\ t.sfx = ""
           THEN readString(s, has, lo, IF t.cs = "" THEN "ASCII" ELSE t.cs)
           ELSE IF t.n = "u16string"
           THEN readUCS2String(s, has, lo, IF t.sfx = "" THEN "def" ELSE t.sfx)
           ELSE Null(s)
  IN IF r.st = "ok" /\ nan THEN Res(r.s, r.v, "nan")
     ELSE IF r.st \in {"ok", "null"} /\ has
     THEN [r EXCEPT !.s.pos = s.pos + lo]
     ELSE r

\* readType(t, struct)
readType(s, t, struct) ==
  CASE t.k \in {"fn", "get"} -> callFn(t.f, s, struct)
    [] t.k = "struct" -> readStruct(s, t.def)
    [] t.k = "name" -> readTypeName(s, t, struct)
    [] t.k = "arr" -> readTypeArray(s, t, struct)

(* ----------------------- struct dialect: writing ---------------------- *)

\* writeUCS2String(str, endianness, lengthOverride): the code units of str,
\* cut or zero-padded to lengthOverride when it is given.
writeUCS2String(s, str, e, hasLen, n) ==
  writeEach(s, "Uint16", IF hasLen THEN PadTo(str, n) ELSE str, e)

\* The write callbacks a descriptor may carry (StructWriteFn), by name:
\* every one writes its value as one byte.
callSet(f, s, v, struct) == writeUint8(s, v)

RECURSIVE writeType(_, _, _, _)
RECURSIVE writeStructFields(_, _, _, _)
RECURSIVE writeElems(_, _, _, _)

\* The end of writeType for a type string whose write gave r on stream s:
\* position = pos; _realloc(lengthOverride); position = pos + lengthOverride
\* when the type has a ':len' part.
afterLength(s, has, lo, r) ==
  IF r.st = "ok" /\ has
  THEN Ok([_realloc([r.s EXCEPT !.pos = s.pos], lo) EXCEPT !.pos = s.pos + lo],
          <<>>)
  ELSE r

(* writeType for a type string.  A name without a case reaches             *)
(* writeStruct(t, v) with t a string, which ends in a TypeError.           *)
writeTypeName(s, t, v, struct) ==
  afterLength(s, t.len.k # "none", resolveLen(t.len, struct),
    IF HasScalarCase(t.n, t.sfx)
    THEN writeScalar(s, ScalarOf(t.n), v, IF t.sfx = "" THEN "def" ELSE t.sfx)
    ELSE IF t.n = "cstring" /\ t.sfx = ""
    THEN writeCString(s, v, t.len.k # "none", resolveLen(t.len, struct))
    ELSE IF t.n = "string" /\ t.sfx = ""
    THEN writeString(s, v, IF t.cs = "" THEN "ASCII" ELSE t.cs,
                     t.len.k # "none", resolveLen(t.len, struct))
    ELSE IF t.n = "u16string"
    THEN writeUCS2String(s, v, IF t.sfx = "" THEN "def" ELSE t.sfx,
                         t.len.k # "none", resolveLen(t.len, struct))
    ELSE Throw(s))

\* The rest v of the elements after the write that gave r.
restElems(r, ta, v, struct) ==
  IF r.st # "ok" THEN r ELSE writeElems(r.s, ta, v, struct)

\* for (const vi of v) this.writeType(ta, vi, struct)
writeElems(s, ta, v, struct) ==
  IF v = <<>> THEN Ok(s, <<>>)
  ELSE restElems(writeType(s, ta, Head(v), struct), ta, Tail(v), struct)

\* The fields from i on after the write that gave r.
restFields(r, def, i, struct) ==
  IF r.st # "ok" THEN r ELSE writeStructFields(r.s, def, i, struct)

\* writeStruct's loop from field i on.
writeStructFields(s, def, i, struct) ==
  IF i > Len(def) THEN Ok(s, <<>>)
  ELSE restFields(writeType(s, def[i][2], struct[def[i][1]], struct),
                  def, i + 1, struct)

\* writeStruct(structDefinition, struct)
writeStruct(s, def, struct) == writeStructFields(s, def, 1, struct)

\* writeType(t, v, struct)
writeType(s, t, v, struct) ==
  CASE t.k \in {"fn", "get"} -> callSet(t.f, s, v, struct)
    [] t.k = "struct" -> writeStruct(s, t.def, v)
    [] t.k = "name" -> writeTypeName(s, t, v, struct)
    [] t.k = "arr" -> writeElems(s, t.ta, v, struct)

(* ---------------------------- construction ---------------------------- *)

Stream(buf, off, dvo, blen, le) ==
  [buf |-> buf, off |-> off, dvo |-> dvo, blen |-> blen, pos |-> 0,
   le |-> le, dyn |-> TRUE, fail |-> 0]

\* new DataStream(n, undefined, le): this.buffer = new ArrayBuffer(n || 1)
newWithCapacity(n, le) ==
  LET cap == IF n = 0 THEN 1 ELSE n IN Stream(Zeros(cap), 0, 0, cap, le)

\* new DataStream(arrayBuffer, byteOffset, le), byteOffset <= its length
newFromBuffer(b, o, le) == Stream(b, o, o, Len(b), le)

(* new DataStream({buffer, byteOffset: vo, byteLength: vl}, o2, le): the    *)
(* dataView setter takes the view's offset and length, then the            *)
(* constructor adds its own byteOffset argument to _byteOffset.            *)
newFromView(b, vo, vl, o2, le) == Stream(b, vo + o2, vo, vo + vl, le)

\* get buffer: _trimAlloc(), then the backing buffer
getBuffer(s) ==
  LET t == _trimAlloc(s) IN IF t.st = "throw" THEN t ELSE Ok(t.s, t.s.buf)

(* ------------------------- sample values ------------------------------ *)

Samples(T) ==
  CASE T = "Int8" -> {-128, 5}
    [] T = "Uint8" -> {0, 255}
    [] T = "Int16" -> {-3, 0, 4}
    [] T = "Uint16" -> {258, 65535}
    [] T = "Int32" -> {-2147483647 - 1, 16909060}
    [] T = "Uint32" -> {[hi |-> 65535, lo |-> 65535], [hi |-> 1, lo |-> 2]}
    [] T = "Float32" -> {[s |-> 0, e |-> 127, m |-> 0],
                         [s |-> 1, e |-> 128, m |-> 2097152]}
    [] T = "Float64" -> {[s |-> 0, e |-> 1023, m1 |-> 0, m2 |-> 0, m3 |-> 0],
                         [s |-> 1, e |-> 1024, m1 |-> 262144, m2 |-> 0, m3 |-> 1]}

\* 'h', 'i' and 'a grave' (two bytes in UTF-8)
CharSamples == {104, 105, 224}

SeqsUpTo(S, n) == UNION {[1..k -> S] : k \in 0..n}

RECURSIVE ValuesOf(_)
\* The values that conform to a TypeDef.
FieldValues(t) ==
  IF t.k = "def" THEN ValuesOf(t.def)
  ELSE IF t.star THEN SeqsUpTo(Samples(t.t), MaxArr)
  ELSE IF t.t = "Utf8WithLen" THEN SeqsUpTo(CharSamples, MaxArr)
  ELSE Samples(t.t)

ValuesOf(def) ==
  IF def = <<>> THEN {<<>>}
  ELSE {(def[1][1] :> v) @@ rest :
          v \in FieldValues(def[1][2]), rest \in ValuesOf(Tail(def))}

ScenarioDef ==
  <<<<"num", TScalar("Int8")>>, <<"label", TScalar("Utf8WithLen")>>,
    <<"values", TArray("Int16")>>>>

ScenarioVal ==
  ("num" :> 5) @@ ("label" :> <<104, 105>>) @@ ("values" :> <<-3, 0, 4>>)

AllScalarsDef ==
  <<<<"a", TScalar("Int8")>>, <<"b", TScalar("Uint8")>>,
    <<"c", TScalar("Int16")>>, <<"d", TScalar("Uint16")>>,
    <<"e", TScalar("Int32")>>, <<"f", TScalar("Uint32")>>,
    <<"g", TScalar("Float32")>>, <<"h", TScalar("Float64")>>>>

NestedDef ==
  <<<<"obj", TNested(<<<<"n", TScalar("Uint8")>>, <<"a1", TArray("Int32")>>>>)>>,
    <<"a2", TArray("Uint16")>>>>

OddDef == <<<<"b", TScalar("Uint8")>>, <<"a", TArray("Int16")>>>>

RTDefs ==
  {ScenarioDef, AllScalarsDef, NestedDef, OddDef, <<>>}
    \cup {<<<<"a", TArray(T)>>>> : T \in ScalarTypes}

\* The values written for descriptor d: every conforming value within the
\* bounds, and the documented example.
RTValues(d) ==
  ValuesOf(d) \cup (IF d = ScenarioDef THEN {ScenarioVal} ELSE {})

(* --------------------------- sample inputs ---------------------------- *)

\* Three 3-byte records (a byte, then a 16-bit value) and one trailing byte.
Records10 == <<1, 2, 3, 1, 0, 0, 1, 255, 254, 9>>

\* The documented example's 13 bytes.
Wire13 == <<5, 2, 0, 104, 105, 3, 0, 253, 255, 0, 0, 4, 0>>

\* A little-endian count of 5 followed by two bytes only.
Truncated4 == <<5, 0, 104, 105>>

\* A length byte, that many characters, a zero-terminated string, a byte.
Strings6 == <<2, 104, 105, 104, 0, 7>>

DataBuffers == {<<>>, <<1, 2, 3, 4>>, Records10, Wire13, Truncated4, Strings6}

\* The streams a caller constructs over the buffers B.
StreamsOver(B) ==
  {newFromBuffer(b, o, le) : b \in B, o \in {0, 1}, le \in BOOLEAN}
    \cup {newFromView(<<1, 2, 3, 4>>, 1, vl, o2, le) :
            vl \in {2, 3}, o2 \in {0, 1}, le \in BOOLEAN}
    \cup {newWithCapacity(n, le) : n \in {0, 2}, le \in BOOLEAN}

Constructed(B) == {s \in StreamsOver(B) : s.off <= s.blen /\ s.blen <= Len(s.buf)}

RecordDef == <<<<"a", SName("uint8")>>, <<"b", SName("uint16")>>>>

MagicDef == <<<<"m", SFn("fnMagic")>>, <<"b", SName("uint16")>>>>

FiveDef ==
  <<<<"a", SName("uint8")>>, <<"b", SName("uint8")>>, <<"c", SGet("fnMagic")>>,
    <<"d", SName("uint8")>>, <<"e", SName("uint8")>>>>

NestedStructDef == <<<<"a", SName("uint8")>>, <<"inner", SStruct(MagicDef)>>>>

ArrayOfStructDef ==
  <<<<"a", SName("uint8")>>, <<"recs", SArr(SStruct(MagicDef), LLit(2))>>>>

StringsDef ==
  <<<<"n", SName("uint8")>>, <<"s", SNameLen("string", LRef("n"))>>,
    <<"t", SName("cstring")>>>>

StarInsideDef ==
  <<<<"recs", SArr(SStruct(MagicDef), LStar)>>, <<"tail", SName("uint8")>>>>

EndianDef == <<<<"x", SNameE("uint16", "be")>>, <<"y", SNameE("int32", "le")>>>>

\* Lengths that name no field decoded so far.
UnresolvedArrDef ==
  <<<<"a", SArr(SName("uint8"), LRef("missing"))>>, <<"b", SName("uint8")>>>>

LaterRefDef ==
  <<<<"a", SArr(SName("uint16"), LRef("n"))>>, <<"n", SName("uint8")>>>>

UnresolvedRecsDef ==
  <<<<"a", SArr(SStruct(RecordDef), LRef("missing"))>>, <<"b", SName("uint8")>>>>

UnresolvedStringDef ==
  <<<<"s", SNameLen("string", LRef("missing"))>>, <<"b", SName("uint8")>>>>

\* Lengths given as a literal, as an earlier field and as a callback.
LiteralLenDef ==
  <<<<"a", SArr(SName("uint16"), LLit(2))>>, <<"z", SName("uint8")>>>>

CountedDef ==
  <<<<"n", SName("uint8")>>, <<"a", SArr(SName("uint8"), LRef("n"))>>,
    <<"z", SName("uint8")>>>>

CountedRecsDef ==
  <<<<"n", SName("uint8")>>, <<"a", SArr(SStruct(RecordDef), LRef("n"))>>>>

CallbackLenDef ==
  <<<<"n", SName("uint8")>>, <<"a", SArr(SName("uint8"), LFn("lenNPlusOne"))>>,
    <<"z", SName("uint8")>>>>

\* Custom decoders: one that reports the struct it is handed, one that may
\* fail after consuming a byte.
CustomDef ==
  <<<<"a", SName("uint8")>>, <<"seen", SFn("fnFields")>>,
    <<"c", SName("uint8")>>, <<"m", SGet("fnMagic")>>>>

\* ['a', 'uint8', 'b', 'uint64']: readType has no case for 'uint64'.
UnknownDef == <<<<"a", SName("uint8")>>, <<"b", SName("uint64")>>>>

\* The struct definitions handed to readStruct.
StructDefs ==
  <<RecordDef, MagicDef, FiveDef, NestedStructDef, ArrayOfStructDef,
    StringsDef, StarInsideDef, EndianDef, UnresolvedArrDef, LaterRefDef,
    UnresolvedRecsDef, UnresolvedStringDef, LiteralLenDef, CountedDef,
    CountedRecsDef, CallbackLenDef, CustomDef, UnknownDef>>

\* ['s', 'string:2']: a struct of one fixed-length string.
TagDef == <<<<"s", SNameLen("string", LLit(2))>>>>

\* The array types handed to readType.
ArrTypes ==
  <<SArr(SStruct(RecordDef), LStar), SArr(SStruct(MagicDef), LStar),
    SArr(SFn("fnMagic"), LStar), SArr(SName("uint8"), LStar),
    SArr(SName("uint16"), LStar), SArr(SNameE("int32", "be"), LStar),
    SArr(SName("cstring"), LStar), SArr(SStruct(RecordDef), LLit(2)),
    SArr(SName("uint8"), LFn("lenTwo")), SArr(SName("uint16"), LFn("lenLeft")),
    SArr(SStruct(TagDef), LStar)>>

\* The TypeDefs handed to read.
Utf8Def == <<<<"s", TScalar("Utf8WithLen")>>>>

Int16ArrDef == <<<<"a", TArray("Int16")>>>>

\* [['a', 'Uint8'], ['b', 'Uint64']]: the stream has no readUint64.
UnknownReadDef == <<<<"a", TScalar("Uint8")>>, <<"b", TScalar("Uint64")>>>>

ReadDefs == <<ScenarioDef, Utf8Def, Int16ArrDef, NestedDef, UnknownReadDef>>

SeekTargets == {-2, 0, 1, 3, 9}

NonFinite == {"NaN", "Infinity", "-Infinity"}

(* ------------------- round trip: write, reopen, read ------------------ *)

NoOp == [name |-> "none"]

NoRet == [st |-> "none", v |-> <<>>]

NoLog == [def |-> <<>>, val |-> <<>>, typed |-> FALSE, n |-> 0, st |-> "none"]

Result(r) == [st |-> r.st, v |-> r.v]

\* ds = new DataStream(undefined, undefined, le)
InitRT ==
  /\ native \in BOOLEAN
  /\ \E le \in BOOLEAN : ds = newWithCapacity(0, le)
  /\ pre = ds
  /\ op = NoOp
  /\ ret = NoRet
  /\ steps = 0
  /\ pc = "fresh"
  /\ wlog = NoLog

\* ds.write(def, o)
RTWrite ==
  /\ pc = "fresh"
  /\ \E d \in RTDefs : \E v \in RTValues(d) : \E typed \in BOOLEAN :
       LET r == write(ds, d, v, typed)
       IN /\ ds' = r.s
          /\ ret' = Result(r)
          /\ wlog' = [def |-> d, val |-> v, typed |-> typed, n |-> r.s.pos,
                      st |-> r.st]
  /\ pre' = ds
  /\ op' = [name |-> "write"]
  /\ pc' = "written"
  /\ UNCHANGED <<steps, native>>

\* ds = new DataStream(ds.buffer, 0, ds.endianness)
RTReopen ==
  /\ pc = "written"
  /\ LET b == getBuffer(ds)
     IN /\ b.st = "ok"
        /\ ds' = newFromBuffer(b.v, 0, ds.le)
  /\ pre' = ds
  /\ op' = [name |-> "reopen"]
  /\ ret' = NoRet
  /\ pc' = "reopened"
  /\ UNCHANGED <<steps, native, wlog>>

\* ds.read(def) with the descriptor that was written
RTRead ==
  /\ pc = "reopened"
  /\ LET r == read(ds, wlog.def)
     IN /\ ds' = r.s
        /\ ret' = Result(r)
  /\ pre' = ds
  /\ op' = [name |-> "read"]
  /\ pc' = "read"
  /\ UNCHANGED <<steps, native, wlog>>

NextRT == RTWrite \/ RTReopen \/ RTRead

SpecRT == InitRT /\ [][NextRT]_vars

(* C1: a value written with write(D, V) into a fresh auto-growing stream   *)
(* and read back with read(D) from position 0 of the resulting buffer is   *)
(* returned field by field equal to V, and the read ends exactly where the *)
(* written bytes end (which is the end of the buffer whenever anything was *)
(* written).                                                               *)
C1_RoundTrip ==
  pc = "read" =>
    /\ ret.st = "ok"
    /\ ret.v = wlog.val
    /\ ds.pos = wlog.n
    /\ (wlog.n > 0 => ds.pos = byteLength(ds))

\* A nested descriptor with a string and non-empty arrays has been read back.
C1_Witness ==
  /\ pc = "read"
  /\ wlog.def = NestedDef
  /\ Len(wlog.val["a2"]) = MaxArr
  /\ Len(wlog.val["obj"]["a1"]) > 0
  /\ ret.st = "ok"

RECURSIVE Wire(_, _, _)
RECURSIVE WireElems(_, _, _)
\* The elements of a, each in its scalar layout, one after the other.
WireElems(T, a, le) ==
  IF a = <<>> THEN <<>> ELSE encode(T, Head(a), le) \o WireElems(T, Tail(a), le)

\* The documented wire format of one field.
WireOf(t, v, le) ==
  IF t.k = "def" THEN Wire(t.def, v, le)
  ELSE IF t.star THEN encode("Uint16", Len(v), le) \o WireElems(t.t, v, le)
  ELSE IF t.t = "Utf8WithLen"
       THEN encode("Uint16", Len(Utf8Encode(v)), le) \o Utf8Encode(v)
  ELSE encode(t.t, v, le)

Wire(def, o, le) ==
  IF def = <<>> THEN <<>>
  ELSE WireOf(def[1][2], o[def[1][1]], le) \o Wire(Tail(def), o, le)

(* C2: write(D, V) emits the fields in descriptor order with no padding;   *)
(* an 'X*' array or a Utf8WithLen string is a 2-byte unsigned count in the *)
(* stream's endianness followed by exactly that many elements or bytes;    *)
(* the documented example gives 05 02 00 68 69 03 00 FD FF 00 00 04 00 on  *)
(* a little-endian stream.                                                 *)
C2_WireFormat ==
  pc = "written" =>
    /\ ret.st = "ok"
    /\ SubSeq(ds.buf, 1, ds.pos) = Wire(wlog.def, wlog.val, ds.le)
    /\ (ds.pos > 0 => byteLength(ds) = ds.pos)
    /\ (wlog.def = ScenarioDef /\ wlog.val = ScenarioVal /\ ds.le =>
          getBuffer(ds).v = <<5, 2, 0, 104, 105, 3, 0, 253, 255, 0, 0, 4, 0>>)

\* The documented example has been written on a little-endian stream.
C2_Witness ==
  /\ pc = "written"
  /\ wlog.def = ScenarioDef
  /\ wlog.val = ScenarioVal
  /\ ds.le
  /\ ds.pos = 13

(* ----------------- decoding: set up a stream, decode once ------------- *)

\* Seeks, size changes and byte writes before the decode.
MaxSetup == 1

InitD ==
  /\ native \in BOOLEAN
  /\ ds \in Constructed(DataBuffers)
  /\ pre = ds
  /\ op = NoOp
  /\ ret = NoRet
  /\ steps = 0
  /\ pc = "setup"
  /\ wlog = NoLog

Done(r, o) ==
  /\ ds' = r.s
  /\ ret' = Result(r)
  /\ pre' = ds
  /\ op' = o
  /\ UNCHANGED <<native, wlog>>

\* ds.seek(p)
DSeek ==
  /\ pc = "setup" /\ steps < MaxSetup
  /\ \E p \in SeekTargets : Done(Ok(seek(ds, p), <<>>), [name |-> "seek"])
  /\ steps' = steps + 1
  /\ pc' = pc

\* ds.dynamicSize = false
DSetDynamicSize ==
  /\ pc = "setup" /\ steps < MaxSetup
  /\ Done(setDynamicSize(ds, FALSE), [name |-> "dynamicSize"])
  /\ steps' = steps + 1
  /\ pc' = pc

\* ds.writeUint8(1)
DWriteUint8 ==
  /\ pc = "setup" /\ steps < MaxSetup
  /\ Done(writeUint8(ds, 1), [name |-> "writeUint8"])
  /\ steps' = steps + 1
  /\ pc' = pc

\* ds.readStruct(def)
DReadStruct ==
  /\ pc = "setup"
  /\ \E i \in 1..Len(StructDefs) :
       Done(readStruct(ds, StructDefs[i]), [name |-> "readStruct", i |-> i])
  /\ pc' = "decoded"
  /\ UNCHANGED steps

\* ds.readType(['[]', ta, len], {})
DReadType ==
  /\ pc = "setup"
  /\ \E i \in 1..Len(ArrTypes) :
       Done(readType(ds, ArrTypes[i], <<>>), [name |-> "readType", i |-> i])
  /\ pc' = "decoded"
  /\ UNCHANGED steps

\* ds.readXArray() and ds.readXArray(n)
DReadArray ==
  /\ pc = "setup"
  /\ \E T \in ScalarTypes : \E n \in {-1, 0, 1, 2} :
       Done(readArray(ds, T, n >= 0, n, "def"),
            [name |-> "readArray", T |-> T, hasLen |-> n >= 0, n |-> n])
  /\ pc' = "decoded"
  /\ UNCHANGED steps

\* ds.read(def)
DRead ==
  /\ pc = "setup"
  /\ \E i \in 1..Len(ReadDefs) :
       Done(read(ds, ReadDefs[i]), [name |-> "read", i |-> i])
  /\ pc' = "decoded"
  /\ UNCHANGED steps

\* ds.readCString() and ds.readCString(n)
DReadCString ==
  /\ pc = "setup"
  /\ \E n \in {-1, 1, 3} :
       Done(readCString(ds, n >= 0, n),
            [name |-> "readCString", hasLen |-> n >= 0, n |-> n])
  /\ pc' = "decoded"
  /\ UNCHANGED steps

NextD ==
  \/ DSeek \/ DSetDynamicSize \/ DWriteUint8
  \/ DReadStruct \/ DReadType \/ DReadArray \/ DRead \/ DReadCString

SpecDecode == InitD /\ [][NextD]_vars

(* ------------------- the stream under a sequence of calls ------------- *)

MachineBuffers == {<<>>, <<1, 2, 3, 4>>}

\* One value of each scalar type for the writes.
WriteSample(T) ==
  CASE T = "Int8" -> -2
    [] T = "Uint8" -> 255
    [] T = "Int16" -> -3
    [] T = "Uint16" -> 258
    [] T = "Int32" -> 16909060
    [] T = "Uint32" -> [hi |-> 65535, lo |-> 65534]
    [] T = "Float32" -> [s |-> 1, e |-> 127, m |-> 1]
    [] T = "Float64" -> [s |-> 0, e |-> 1023, m1 |-> 1, m2 |-> 2, m3 |-> 3]

Init ==
  /\ native \in BOOLEAN
  /\ ds \in Constructed(MachineBuffers)
  /\ pre = ds
  /\ op = NoOp
  /\ ret = NoRet
  /\ steps = 0
  /\ pc = "run"
  /\ wlog = NoLog

Step(r, o) ==
  /\ steps < MaxSteps
  /\ Done(r, o)
  /\ steps' = steps + 1
  /\ pc' = pc

\* ds.seek(p)
Seek == \E p \in SeekTargets : Step(Ok(seek(ds, p), <<>>), [name |-> "seek", p |-> p])

\* ds.readInt8() .. ds.readFloat64()
ReadScalar ==
  \E T \in ScalarTypes :
    Step(readScalar(ds, T, "def"), [name |-> "readScalar", T |-> T])

\* ds.writeInt8(v) .. ds.writeFloat64(v)
WriteScalar ==
  \E T \in ScalarTypes :
    Step(writeScalar(ds, T, WriteSample(T), "def"), [name |-> "writeScalar", T |-> T])

\* ds.dynamicSize = v
SetDynamicSize ==
  \E v \in BOOLEAN : Step(setDynamicSize(ds, v), [name |-> "dynamicSize", v |-> v])

\* ds.buffer
GetBuffer == Step(getBuffer(ds), [name |-> "buffer"])

\* The arrays handed to the array writers: one and two elements.
ArraySamples(T) == {<<WriteSample(T)>>, <<WriteSample(T), WriteSample(T)>>}

\* ds.readUint8Array(n), ds.readInt16Array(n); n = -1 stands for no argument
ReadArray ==
  \E T \in {"Uint8", "Int16"} : \E n \in {-1, 1, 2} :
    Step(readArray(ds, T, n >= 0, n, "def"),
         [name |-> "readArray", T |-> T, hasLen |-> n >= 0, n |-> n])

\* ds.writeUint8Array(a), ds.writeInt16Array(a) with a typed or a plain array
WriteArray ==
  \E T \in {"Uint8", "Int16"} : \E a \in ArraySamples(T) : \E typed \in BOOLEAN :
    Step(writeArray(ds, T, a, typed, "def"),
         [name |-> "writeArray", T |-> T, n |-> Len(a), typed |-> typed])

\* ds.readString(2)
ReadString ==
  Step(readString(ds, TRUE, 2, "ASCII"), [name |-> "readString", n |-> 2])

\* ds.seek(NaN), ds.seek(Infinity), ds.seek(-Infinity)
SeekNonFinite ==
  \E x \in NonFinite :
    Step(Ok(seekNonFinite(ds, x), <<>>), [name |-> "seekNonFinite", x |-> x])

Next ==
  \/ Seek \/ SeekNonFinite \/ ReadScalar \/ WriteScalar \/ SetDynamicSize \/ GetBuffer
  \/ ReadArray \/ WriteArray \/ ReadString

Spec == Init /\ [][Next]_vars

(* ------------------------- struct decoding ---------------------------- *)

RECURSIVE FieldFailure(_, _, _, _)
\* The first field of def, from field i on, whose decoder does not yield a
\* value: its index k, how it ended (st) and where it started (at).
FieldFailure(s, def, i, struct) ==
  IF i > Len(def) THEN [k |-> 0, st |-> "ok", at |-> s.pos]
  ELSE LET r == readType(s, def[i][2], struct)
       IN IF r.st # "ok" THEN [k |-> i, st |-> r.st, at |-> s.pos]
          ELSE FieldFailure(r.s, def, i + 1, (def[i][1] :> r.v) @@ struct)

FieldNames(def) == {def[i][1] : i \in 1..Len(def)}

C4_CatchesLeafErrors ==
  op.name = "readStruct"
    /\ FieldFailure(pre, StructDefs[op.i], 1, <<>>).st = "throw"
  => ret.st = "null" /\ ds.pos = pre.pos

(* --------------------------- open-ended arrays ------------------------ *)

RECURSIVE AfterRecords(_, _, _)
\* The stream after k records of def were decoded one after another.
AfterRecords(s, def, k) ==
  IF k = 0 THEN s ELSE readStruct(AfterRecords(s, def, k - 1), def).s

\* The '*' arrays of 3-byte records among ArrTypes.
IsRecordStar(t) ==
  /\ t.k = "arr" /\ t.len.k = "star" /\ t.ta.k = "struct"
  /\ t.ta.def \in {RecordDef, MagicDef}

\* a byte and a 16-bit value
RecordWidth == Width("Uint8") + Width("Uint16")

(* C5: an open-ended array of records holds exactly the records that       *)
(* decode one after another from the starting position, the attempt after  *)
(* the last one fails, and the position is just behind the last decoded    *)
(* record; three records and one more byte give 3 records and position 9.  *)
C5_StarRecords ==
  op.name = "readType" /\ IsRecordStar(ArrTypes[op.i]) =>
    LET def == ArrTypes[op.i].ta.def
        n == Len(ret.v)
    IN /\ ret.st = "ok"
       /\ \A k \in 1..n :
            LET r == readStruct(AfterRecords(pre, def, k - 1), def)
            IN r.st = "ok" /\ r.v = ret.v[k]
       /\ readStruct(AfterRecords(pre, def, n), def).st # "ok"
       /\ ds.pos = AfterRecords(pre, def, n).pos
       /\ ds.pos = pre.pos + RecordWidth * n
       /\ (pre.buf = Records10 /\ pre.off = 0 /\ pre.pos = 0 /\ pre.blen = 10
             => n = 3 /\ ds.pos = 9)

C5_Witness ==
  /\ op.name = "readType"
  /\ ArrTypes[op.i] = SArr(SStruct(RecordDef), LStar)
  /\ pre.buf = Records10 /\ pre.off = 0 /\ pre.pos = 0 /\ pre.blen = 10
  /\ Len(ret.v) = 3
  /\ ds.pos = 9

(* C6: decoding an open-ended array returns an array for every element     *)
(* type; it neither raises nor returns the failure value.                  *)
C6_StarNeverFails ==
  op.name = "readType" /\ ArrTypes[op.i].len.k = "star" => ret.st = "ok"

(* C7: readXArray() without a count succeeds whenever the position is not  *)
(* behind the end and returns floor((byteLength - p) / w) elements, the    *)
(* ones stored from p on.                                                  *)
C7_FillsRemainder ==
  op.name = "readArray" /\ ~op.hasLen /\ pre.pos <= byteLength(pre) =>
    LET w == Width(op.T)
        n == (byteLength(pre) - pre.pos) \div w
        from == pre.off + pre.pos
    IN /\ ret.st = "ok"
       /\ Len(ret.v) = n
       /\ ret.v = [k \in 1..n |->
                     decode(op.T, SubSeq(pre.buf, from + (k - 1) * w + 1, from + k * w),
                            pre.le)]

(* C10: read(D) of a length-prefixed string or a count-prefixed array      *)
(* whose prefix declares more than remains before the logical end raises.  *)
C10_TruncatedFails ==
  op.name = "read" /\ ReadDefs[op.i] \in {Utf8Def, Int16ArrDef} =>
    LET c == readUint16(pre, "def")
        w == IF ReadDefs[op.i] = Utf8Def THEN 1 ELSE 2
    IN c.st = "ok" /\ c.v * w > byteLength(pre) - c.s.pos => ret.st = "throw"

(* ------------------------------ scalars ------------------------------- *)

(* C8: a scalar read with fewer than w bytes between the position and the  *)
(* logical end raises.                                                     *)
C8_ReadBounds ==
  op.name = "readScalar" /\ byteLength(pre) - pre.pos < Width(op.T)
    => ret.st = "throw"

(* C9: a scalar read or write that raises leaves the position where it     *)
(* was before the call.                                                    *)
C9_FailedScalarKeepsPosition ==
  op.name \in {"readScalar", "writeScalar"} /\ ret.st = "throw"
    => ds.pos = pre.pos

\* A 2-byte read raises at position 3 of a 4-byte stream.
C9_Witness ==
  /\ op.name = "readScalar"
  /\ Width(op.T) = 2
  /\ ret.st = "throw"
  /\ pre.pos = 3
  /\ ds.pos = 3

(* --------------------- growth under sequential writes ----------------- *)

\* Small writes made to one fresh stream.
MaxWrites == 3

\* ds = new DataStream(undefined, undefined, le): capacity 1, auto-grow on
InitGrow ==
  /\ native \in BOOLEAN
  /\ \E le \in BOOLEAN : ds = newWithCapacity(0, le)
  /\ pre = ds
  /\ op = NoOp
  /\ ret = NoRet
  /\ steps = 0
  /\ pc = "grow"
  /\ wlog = NoLog

\* ds.writeInt8(v) .. ds.writeFloat64(v); wlog.val collects the bytes handed
\* to the stream
GWrite ==
  /\ pc = "grow" /\ steps < MaxWrites
  /\ \E T \in ScalarTypes : \E v \in Samples(T) :
       LET r == writeScalar(ds, T, v, "def")
       IN /\ ds' = r.s
          /\ ret' = Result(r)
          /\ op' = [name |-> "writeScalar", T |-> T]
          /\ wlog' = [wlog EXCEPT !.val = wlog.val \o encode(T, v, ds.le),
                                  !.n = wlog.n + Width(T)]
  /\ pre' = ds
  /\ steps' = steps + 1
  /\ UNCHANGED <<pc, native>>

\* ds.buffer
GBuffer ==
  /\ pc = "grow"
  /\ op.name # "buffer"
  /\ Done(getBuffer(ds), [name |-> "buffer"])
  /\ UNCHANGED <<steps, pc>>

NextGrow == GWrite \/ GBuffer

SpecGrow == InitGrow /\ [][NextGrow]_vars

LeastDoubling(c, req, kmin) ==
  LET c0 == IF c = 0 THEN 1 ELSE c
      D == {c0 * 2^k : k \in kmin..8}
  IN CHOOSE d \in D : d >= req /\ \A x \in D : x >= req => d <= x

\* What a scalar write of an auto-growing stream does to the allocation,
\* with the least number of doublings the statement allows being kmin.
GrowthRule(kmin) ==
  op.name = "writeScalar" /\ pre.dyn =>
    LET w == Width(op.T)
        req == pre.off + pre.pos + w
        c == Len(pre.buf)
    IN /\ ret.st = "ok"
       /\ req <= c => Len(ds.buf) = c
       /\ req > c =>
            /\ Len(ds.buf) = LeastDoubling(c, req, kmin)
            /\ ds.blen = req
       /\ \A i \in 1..c :
            ~(i > ds.dvo + pre.pos /\ i <= ds.dvo + pre.pos + w)
              => ds.buf[i] = pre.buf[i]

(* C12 (as amended): a write of extra bytes at position p of an            *)
(* auto-growing stream reallocates only if offset + p + extra exceeds the  *)
(* capacity c, and then the new capacity is the least max(c, 1) * 2^k,     *)
(* k >= 0, that is >= offset + p + extra; the logical length becomes       *)
(* offset + p + extra and the bytes below the old capacity that the write  *)
(* itself does not store are unchanged.                                    *)
C12_Doubling == GrowthRule(0)

\* A write that needs two doublings and keeps the earlier bytes.
C12_Witness ==
  /\ op.name = "writeScalar"
  /\ pre.dyn
  /\ Len(pre.buf) = 4
  /\ pre.off + pre.pos + Width(op.T) > 8
  /\ Len(ds.buf) = 16
  /\ SubSeq(ds.buf, 1, 3) = SubSeq(pre.buf, 1, 3)
  /\ pre.buf[1] # 0

\* C12 as stated: the new capacity is the least c * 2^k with k >= 1 (c = 1
\* for an empty allocation).
C12_DoublesAtLeastOnce == GrowthRule(1)

(* ------------------------- auto-grow disabled ------------------------- *)

\* The number of bytes the write call of log entry o stores.
WriteBytes(o) == IF o.name = "writeArray" THEN o.n * Width(o.T) ELSE Width(o.T)

(* C13: with dynamicSize = false a write whose byte range, offset +        *)
(* position + bytes, reaches past the capacity raises, and no write,       *)
(* failing or not, changes the capacity or the logical length.             *)
C13_NoGrowthWhenDisabled ==
  op.name \in {"writeScalar", "writeArray"} /\ ~pre.dyn =>
    /\ Len(ds.buf) = Len(pre.buf)
    /\ ds.blen = pre.blen
    /\ pre.off + pre.pos + WriteBytes(op) > Len(pre.buf) => ret.st = "throw"

(* -------------------------------- seek -------------------------------- *)

(* C14: seek(pos) leaves the position at pos clamped into [0, byteLength]  *)
(* for a finite pos and at 0 for NaN, Infinity and -Infinity.              *)
C14_SeekClamps ==
  /\ op.name = "seek" /\ byteLength(pre) >= 0 =>
       ds.pos = (IF op.p < 0 THEN 0
                 ELSE IF op.p > byteLength(pre) THEN byteLength(pre) ELSE op.p)
  /\ op.name = "seekNonFinite" => ds.pos = 0

(* ------------------------ length and capacity ------------------------- *)

(* C15: in every state of a stream, however it was constructed and         *)
(* whatever seeks, reads, writes, growths, trims and dynamicSize changes   *)
(* it went through, _byteLength is at most the capacity of _buffer.        *)
C15_LengthWithinCapacity == ds.blen <= Len(ds.buf)

\* A write grew the allocation beyond the logical length.
C15_Witness ==
  /\ op.name \in {"writeScalar", "writeArray"}
  /\ Len(ds.buf) > Len(pre.buf)
  /\ ds.blen > pre.blen
  /\ ds.blen < Len(ds.buf)

(* ------------------------- length specifiers -------------------------- *)

\* The names of the fields of def before field i.
Earlier(def, i) == {def[j][1] : j \in 1..(i - 1)}

\* Field i of def is an array or a ':len' type string whose length is a
\* name that no earlier field of def carries.
UnresolvedAt(def, i) ==
  LET t == def[i][2]
  IN /\ t.k \in {"arr", "name"}
     /\ t.len.k = "ref"
     /\ t.len.name \notin Earlier(def, i)

(* C16: readStruct of a definition whose field u has a length that names   *)
(* no earlier field raises an error once the fields before u are decoded;  *)
(* it returns no mapping and decodes no later field.                       *)
C16_UnresolvedLengthFails ==
  op.name = "readStruct" =>
    LET def == StructDefs[op.i]
        f == FieldFailure(pre, def, 1, <<>>)
    IN \A u \in 1..Len(def) :
         UnresolvedAt(def, u) /\ (f.k = 0 \/ f.k >= u) => ret.st = "throw"

\* The definitions whose arrays have a literal, sibling or callback length.
LenDefs == {LiteralLenDef, CountedDef, CountedRecsDef, CallbackLenDef}

RECURSIVE StructSize(_, _)
\* The encoded size of the first i fields of a struct of scalars.
StructSize(def, i) ==
  IF i = 0 THEN 0
  ELSE StructSize(def, i - 1) + Width(ScalarOf(def[i][2].n))

\* The encoded size of one element of an array of type ta.
ElemSize(ta) ==
  IF ta.k = "struct" THEN StructSize(ta.def, Len(ta.def))
  ELSE Width(ScalarOf(ta.n))

\* The encoded size of the value v of a field of type t.
FieldSize(t, v) ==
  IF t.k = "arr" THEN Len(v) * ElemSize(t.ta) ELSE Width(ScalarOf(t.n))

RECURSIVE SizeBefore(_, _, _)
\* The encoded size of the fields of def before field i, with values v.
SizeBefore(def, v, i) ==
  IF i = 1 THEN 0
  ELSE SizeBefore(def, v, i - 1) + FieldSize(def[i - 1][2], v[def[i - 1][1]])

\* The element count that the length of array type t stands for, for the
\* struct built so far and the stream as it is when the array is reached.
CountOf(t, struct, s) ==
  CASE t.len.k = "lit" -> t.len.n
    [] t.len.k = "ref" -> struct[t.len.name]
    [] t.len.k = "fn" -> callLen(t.len.name, struct, s, t)

(* C17: a decoded array has the number of elements that its length stands  *)
(* for: the literal, the value of the earlier field it names (0 included)  *)
(* or what the callback returns for the struct built so far, the stream    *)
(* and the array type; the position advances by the count times the size  *)
(* of one element.                                                         *)
C17_LengthResolution ==
  /\ op.name = "readStruct" /\ StructDefs[op.i] \in LenDefs /\ ret.st = "ok" =>
       LET def == StructDefs[op.i]
       IN /\ \A i \in 1..Len(def) :
               def[i][2].k = "arr" =>
                 LET sofar == [f \in Earlier(def, i) |-> ret.v[f]]
                     at == [pre EXCEPT !.pos = pre.pos + SizeBefore(def, ret.v, i)]
                 IN Len(ret.v[def[i][1]]) = CountOf(def[i][2], sofar, at)
          /\ ds.pos = pre.pos + SizeBefore(def, ret.v, Len(def) + 1)
  /\ op.name = "readType" /\ ArrTypes[op.i].len.k # "star" /\ ret.st = "ok" =>
       /\ Len(ret.v) = CountOf(ArrTypes[op.i], <<>>, pre)
       /\ ds.pos = pre.pos + Len(ret.v) * ElemSize(ArrTypes[op.i].ta)

C17_Witness ==
  /\ op.name = "readStruct"
  /\ StructDefs[op.i] = CountedRecsDef
  /\ ret.st = "ok"
  /\ ret.v["n"] = 1
  /\ Len(ret.v["a"]) = 1
  /\ ds.pos = pre.pos + 1 + RecordWidth

(* --------------------------- custom decoders -------------------------- *)

(* C18: readStruct hands a custom decoder the stream, positioned after the *)
(* fields before it, and the struct holding exactly those fields; what the *)
(* decoder returns is stored under the field's name; when the decoder      *)
(* returns null after consuming a byte, readStruct returns null and the    *)
(* position is the one it had on entry.                                    *)
C18_CustomDecoders ==
  op.name = "readStruct" /\ StructDefs[op.i] = CustomDef =>
    LET f == FieldFailure(pre, CustomDef, 1, <<>>)
    IN /\ ret.st = "ok" =>
            /\ ret.v["seen"] = {"a"}
            /\ ret.v["m"] = readUint8([pre EXCEPT !.pos = pre.pos + 2]).v
            /\ ds.pos = pre.pos + 3
       /\ f.k = 4 /\ f.st = "null" =>
            /\ ret.st = "null"
            /\ ds.pos = pre.pos
            /\ pre.fail = 0 => ds.fail = f.at + 1

\* The last field's decoder consumed a byte other than 1 and returned null.
C18_Witness ==
  /\ op.name = "readStruct"
  /\ StructDefs[op.i] = CustomDef
  /\ LET f == FieldFailure(pre, CustomDef, 1, <<>>)
     IN f.k = 4 /\ f.st = "null" /\ f.at = pre.pos + 2
  /\ pre.fail = 0
  /\ ds.fail = pre.pos + 3
  /\ ret.st = "null"
  /\ ds.pos = pre.pos

(* ------------------------- endianness selection ----------------------- *)

LITTLE_ENDIAN == TRUE

BIG_ENDIAN == FALSE

\* The constructor's endianness parameter: LITTLE_ENDIAN when the argument
\* is omitted ("def").
endiannessParam(arg) ==
  CASE arg = "def" -> LITTLE_ENDIAN
    [] arg = "le" -> LITTLE_ENDIAN
    [] arg = "be" -> BIG_ENDIAN

\* An endianness argument: omitted, LITTLE_ENDIAN, BIG_ENDIAN.
EndianArgs == {"def", "le", "be"}

WideTypes == {"Uint16", "Int32"}

\* ds = new DataStream(new Uint8Array([1, 2, 3, 4, 5, 6]).buffer, 0, arg);
\* pc keeps the endianness argument of the constructor.
InitEndian ==
  /\ native \in BOOLEAN
  /\ pc \in EndianArgs
  /\ ds = newFromBuffer(<<1, 2, 3, 4, 5, 6>>, 0, endiannessParam(pc))
  /\ pre = ds
  /\ op = NoOp
  /\ ret = NoRet
  /\ steps = 0
  /\ wlog = NoLog

EStep(r, o) ==
  /\ steps < MaxSteps
  /\ Done(r, o)
  /\ steps' = steps + 1
  /\ pc' = pc

\* ds.seek(p)
ESeek ==
  \E p \in {0, 2} : EStep(Ok(seek(ds, p), <<>>), [name |-> "seek", p |-> p])

\* ds.writeX(v, e)
EWriteScalar ==
  \E T \in WideTypes : \E v \in Samples(T) : \E e \in EndianArgs :
    EStep(writeScalar(ds, T, v, e),
          [name |-> "writeScalar", T |-> T, v |-> v, e |-> e])

\* ds.readX(e)
EReadScalar ==
  \E T \in WideTypes : \E e \in EndianArgs :
    EStep(readScalar(ds, T, e), [name |-> "readScalar", T |-> T, e |-> e])

\* ds.writeXArray(a, e) for a typed array or a plain array a
EWriteArray ==
  \E T \in WideTypes : \E v \in Samples(T) : \E typed \in BOOLEAN :
    \E e \in EndianArgs :
      EStep(writeArray(ds, T, <<v>>, typed, e),
            [name |-> "writeArray", T |-> T, a |-> <<v>>, typed |-> typed,
             e |-> e])

\* ds.readXArray(1, e)
EReadArray ==
  \E T \in WideTypes : \E e \in EndianArgs :
    EStep(readArray(ds, T, TRUE, 1, e),
          [name |-> "readArray", T |-> T, e |-> e])

\* ds.readStruct(['x', 'uint16be', 'y', 'int32le']) and
\* ds.readStruct(['a', 'uint8', 'b', 'uint16'])
EReadStruct ==
  \E def \in {EndianDef, RecordDef} :
    EStep(readStruct(ds, def), [name |-> "readStruct", def |-> def])

NextEndian ==
  \/ ESeek \/ EWriteScalar \/ EReadScalar \/ EWriteArray \/ EReadArray
  \/ EReadStruct

SpecEndian == InitEndian /\ [][NextEndian]_vars

\* The byte order that a call with endianness argument e uses on a stream
\* whose default is little-endian exactly when le.
OrderOf(e, le) ==
  CASE e = "def" -> le
    [] e = "le" -> LITTLE_ENDIAN
    [] e = "be" -> BIG_ENDIAN

\* The w bytes of s at position p.
BytesAt(s, p, w) == SubSeq(s.buf, s.off + p + 1, s.off + p + w)

(* C19: a stream constructed without an endianness argument is             *)
(* little-endian; a multi-byte scalar or array read or write uses the      *)
(* byte order of its endianness argument, and the stream's when the        *)
(* argument is omitted; in readStruct a type name ending in 'be' or 'le'   *)
(* is decoded in that byte order whatever the stream's is, and a name      *)
(* without suffix in the stream's byte order.                              *)
C19_EndianSelection ==
  /\ ds.le = (pc # "be")
  /\ ret.st = "ok" /\ op.name \in {"writeScalar", "writeArray"} =>
       LET v == IF op.name = "writeScalar" THEN op.v ELSE op.a[1]
       IN BytesAt(ds, pre.pos, Width(op.T)) = encode(op.T, v, OrderOf(op.e, pre.le))
  /\ ret.st = "ok" /\ op.name \in {"readScalar", "readArray"} =>
       LET v == IF op.name = "readScalar" THEN ret.v ELSE ret.v[1]
       IN v = decode(op.T, BytesAt(pre, pre.pos, Width(op.T)), OrderOf(op.e, pre.le))
  /\ ret.st = "ok" /\ op.name = "readStruct" /\ op.def = EndianDef =>
       /\ ret.v["x"] = decode("Uint16", BytesAt(pre, pre.pos, 2), BIG_ENDIAN)
       /\ ret.v["y"] = decode("Int32", BytesAt(pre, pre.pos + 2, 4), LITTLE_ENDIAN)
  /\ ret.st = "ok" /\ op.name = "readStruct" /\ op.def = RecordDef =>
       ret.v["b"] = decode("Uint16", BytesAt(pre, pre.pos + 1, 2), pre.le)

\* A stream constructed without an endianness argument wrote a 16-bit
\* value with the big-endian argument.
C19_Witness ==
  /\ pc = "def"
  /\ op.name = "writeScalar"
  /\ op.T = "Uint16"
  /\ op.v = 258
  /\ op.e = "be"
  /\ ret.st = "ok"
  /\ BytesAt(pre, pre.pos, 2) = <<3, 4>>
  /\ BytesAt(ds, pre.pos, 2) = <<1, 2>>

(* ------------------------ endianness invariance ----------------------- *)

\* The stream after write(d, v) into new DataStream(undefined, undefined, le).
Written(d, v, typed, le) == write(newWithCapacity(0, le), d, v, typed).s

\* What read(d) returns from position 0 of the buffer that write(d, v)
\* produced, both on streams of endianness le.
RoundTrip(d, v, typed, le) ==
  Result(read(newFromBuffer(getBuffer(Written(d, v, typed, le)).v, 0, le), d))

(* C20: what a stream reads back after writing a value is the same on a    *)
(* stream of the other byte order: the byte order changes the bytes, not   *)
(* the decoded value.                                                      *)
C20_EndianInvariance ==
  pc = "read" =>
    /\ ret = RoundTrip(wlog.def, wlog.val, wlog.typed, ds.le)
    /\ ret = RoundTrip(wlog.def, wlog.val, wlog.typed, ~ds.le)

\* A value was read back whose bytes differ between the two byte orders.
C20_Witness ==
  /\ pc = "read"
  /\ ret.st = "ok"
  /\ wlog.def = NestedDef
  /\ ret.v = wlog.val
  /\ ds.buf # getBuffer(Written(wlog.def, wlog.val, wlog.typed, ~ds.le)).v
  /\ Len(ds.buf) = Len(getBuffer(Written(wlog.def, wlog.val, wlog.typed, ~ds.le)).v)

(* --------------- struct dialect: write, reopen, read back ------------- *)

ScalarsRTDef ==
  <<<<"a", SName("uint8")>>, <<"b", SName("uint16")>>,
    <<"c", SNameE("int32", "be")>>, <<"d", SNameE("int16", "le")>>>>

StringsRTDef ==
  <<<<"n", SName("uint8")>>, <<"s", SNameLen("string", LRef("n"))>>,
    <<"t", SName("cstring")>>, <<"u", SNameLen("string", LLit(2))>>>>

ArraysRTDef ==
  <<<<"n", SName("uint8")>>, <<"a", SArr(SName("uint16"), LRef("n"))>>,
    <<"b", SArr(SNameE("int16", "be"), LLit(2))>>,
    <<"recs", SArr(SStruct(RecordDef), LRef("n"))>>>>

NestedRTDef ==
  <<<<"a", SName("uint8")>>, <<"inner", SStruct(RecordDef)>>,
    <<"z", SNameE("uint16", "be")>>>>

\* ['u', 'u16string:2', 'z', 'uint8'] and ['z', 'uint8', 'u', 'u16stringbe:2']
U16FirstDef ==
  <<<<"u", SNameLen("u16string", LLit(2))>>, <<"z", SName("uint8")>>>>

U16LastDef ==
  <<<<"z", SName("uint8")>>,
    <<"u", [SNameLen("u16string", LLit(2)) EXCEPT !.sfx = "be"]>>>>

SRTDefs ==
  {ScalarsRTDef, StringsRTDef, ArraysRTDef, NestedRTDef, U16FirstDef, U16LastDef}

\* Characters of the sample strings: 'h' and 'a grave'.
StrChars == {104, 224}

Strs(n) == [1..n -> StrChars]

RecordValues ==
  {("a" :> a) @@ ("b" :> b) : a \in Samples("Uint8"), b \in Samples("Uint16")}

\* The values that conform to the struct definition d.
SRTValues(d) ==
  CASE d = ScalarsRTDef ->
         {("a" :> a) @@ ("b" :> b) @@ ("c" :> c) @@ ("d" :> dd) :
            a \in Samples("Uint8"), b \in Samples("Uint16"),
            c \in Samples("Int32"), dd \in Samples("Int16")}
    [] d = StringsRTDef ->
         UNION {{("n" :> n) @@ ("s" :> s) @@ ("t" :> tt) @@ ("u" :> u) :
                   s \in Strs(n), tt \in SeqsUpTo(StrChars, MaxArr), u \in Strs(2)} :
                n \in 0..MaxArr}
    [] d = ArraysRTDef ->
         UNION {{("n" :> n) @@ ("a" :> a) @@ ("b" :> b) @@ ("recs" :> r) :
                   a \in [1..n -> Samples("Uint16")],
                   b \in [1..2 -> Samples("Int16")],
                   r \in [1..n -> RecordValues]} :
                n \in 0..MaxArr}
    [] d = NestedRTDef ->
         {("a" :> a) @@ ("inner" :> r) @@ ("z" :> z) :
            a \in Samples("Uint8"), r \in RecordValues, z \in Samples("Uint16")}
    [] d \in {U16FirstDef, U16LastDef} ->
         {("u" :> u) @@ ("z" :> z) : u \in Strs(2), z \in {7, 255}}

\* ds = new DataStream(undefined, undefined, le)
InitSRT ==
  /\ native \in BOOLEAN
  /\ \E le \in BOOLEAN : ds = newWithCapacity(0, le)
  /\ pre = ds
  /\ op = NoOp
  /\ ret = NoRet
  /\ steps = 0
  /\ pc = "fresh"
  /\ wlog = NoLog

\* ds.writeStruct(def, v)
SWrite ==
  /\ pc = "fresh"
  /\ \E d \in SRTDefs : \E v \in SRTValues(d) :
       LET r == writeStruct(ds, d, v)
       IN /\ ds' = r.s
          /\ ret' = Result(r)
          /\ wlog' = [def |-> d, val |-> v, typed |-> FALSE, n |-> r.s.pos,
                      st |-> r.st]
  /\ pre' = ds
  /\ op' = [name |-> "writeStruct"]
  /\ pc' = "written"
  /\ UNCHANGED <<steps, native>>

\* ds.readStruct(def) with the definition that was written
SRead ==
  /\ pc = "reopened"
  /\ Done(readStruct(ds, wlog.def), [name |-> "readStruct"])
  /\ pc' = "read"
  /\ UNCHANGED steps

NextSRT == SWrite \/ RTReopen \/ SRead

SpecSRT == InitSRT /\ [][NextSRT]_vars

(* C21: a value written with writeStruct(D, V) into a fresh stream and     *)
(* read back with readStruct(D) from position 0 of the written bytes is    *)
(* returned equal to V.                                                    *)
C21_StructRoundTrip ==
  pc = "read" /\ op.name = "readStruct" => ret.st = "ok" /\ ret.v = wlog.val

(* ------------------------ null-terminated strings --------------------- *)

\* The bytes of s from its position to its logical end.
Rest(s) == SubSeq(s.buf, s.off + s.pos + 1, s.blen)

\* The number of bytes of b before its first zero byte among the first
\* lim, or lim when there is none.
ZeroIndex(b, lim) ==
  IF \E k \in 1..lim : b[k] = 0
  THEN (CHOOSE k \in 1..lim : b[k] = 0 /\ \A j \in 1..(k - 1) : b[j] # 0) - 1
  ELSE lim

(* C22: readCString returns the bytes from the position up to and          *)
(* excluding the first zero byte; without a maximum length the zero byte   *)
(* is consumed unless the string ran to the end of the buffer; with a      *)
(* maximum length N whose N bytes hold no zero, a zero byte that follows   *)
(* them and is not the last byte of the buffer is consumed too.            *)
C22_CString ==
  op.name = "readCString" /\ ret.st = "ok" =>
    LET b == Rest(pre)
        lim == IF op.hasLen THEN Min(op.n, Len(b)) ELSE Len(b)
        z == ZeroIndex(b, lim)
    IN /\ ret.v = SubSeq(b, 1, z)
       /\ ~op.hasLen => ds.pos = pre.pos + z + (IF z < Len(b) THEN 1 ELSE 0)
       /\ op.hasLen /\ z = op.n /\ op.n + 1 < Len(b) /\ b[op.n + 1] = 0 =>
            ds.pos = pre.pos + op.n + 1

(* ---------------------------- unknown types --------------------------- *)

\* A type name for which readType has no case.
IsUnknown(t) ==
  /\ t.k = "name"
  /\ ~HasScalarCase(t.n, t.sfx)
  /\ t.n \notin {"cstring", "string", "u16string"}

(* C23: when decoding reaches a field whose type name is unknown,          *)
(* readStruct and read raise an error; they do not return null with the    *)
(* position rolled back and do not skip the field.                         *)
C23_UnknownTypeFailsFast ==
  /\ op.name = "readStruct" =>
       LET def == StructDefs[op.i]
           f == FieldFailure(pre, def, 1, <<>>)
       IN f.k > 0 /\ IsUnknown(def[f.k][2]) => ret.st = "throw"
  /\ op.name = "read" /\ ReadDefs[op.i] = UnknownReadDef => ret.st = "throw"

(* ------------------------ fixed-length UTF-16 ------------------------- *)

\* The bytes of the code units str in byte order le.
U16Bytes(str, le) == WireElems("Uint16", str, le)

(* C24: a 'u16string:N' field occupies 2 * N bytes: writeStruct leaves the *)
(* position 2 * N bytes past the start of the field and writes the next   *)
(* field after them, and readStruct decodes the next field from the bytes  *)
(* that follow the 2 * N bytes of the string.                              *)
C24_U16StringAdvance ==
  wlog.def = U16FirstDef =>
    /\ pc = "written" =>
         /\ ret.st = "ok"
         /\ ds.pos = 2 * 2 + 1
         /\ getBuffer(ds).v = U16Bytes(wlog.val["u"], ds.le) \o <<wlog.val["z"]>>
    /\ pc = "read" /\ ret.st = "ok" =>
         /\ ds.pos = 2 * 2 + 1
         /\ ret.v["z"] = pre.buf[2 * 2 + 1]

(* ----------------------- open-ended termination ----------------------- *)

(* C25: on a stream that grows on demand, decoding ['[]', ta, '*'] for an  *)
(* element type at least one byte wide makes at most byteLength - position *)
(* element attempts: it is not still running after more elements than      *)
(* there are bytes left, and it returns at most that many elements.        *)
C25_StarTerminates ==
  /\ op.name = "readType"
  /\ ArrTypes[op.i].len.k = "star"
  /\ pre.dyn
  /\ byteLength(pre) - pre.pos < MaxIter
  => /\ ret.st # "diverge"
     /\ ret.st = "ok" => Len(ret.v) <= byteLength(pre) - pre.pos

(* --------------------------- cursor position -------------------------- *)

(* C26: after a call that returns without raising, the position is         *)
(* between 0 and byteLength.                                               *)
C26_CursorWithinLength ==
  ret.st # "throw" => 0 <= ds.pos /\ ds.pos <= byteLength(ds)

(* ------------------------------ read purity --------------------------- *)

\* The bytes of s from its byteOffset to its logical end.
Data(s) == SubSeq(s.buf, s.off + 1, s.blen)

(* C27: a read, whether it returns or raises, leaves byteLength and every  *)
(* byte below byteLength as they were.                                     *)
C27_ReadsArePure ==
  op.name \in {"readScalar", "readArray", "readString"} =>
    /\ byteLength(ds) = byteLength(pre)
    /\ Data(ds) = Data(pre)

(* ------------------------ scalar and bulk access ---------------------- *)

(* C28: at every position of every stream, readUint8() returns the         *)
(* storage byte at byteOffset + position, and readUint8Array(1) at the     *)
(* same position returns that same byte.                                   *)
C28_SameByte ==
  op.name = "readScalar" /\ op.T = "Uint8" /\ ret.st = "ok" =>
    LET a == readArray(pre, "Uint8", TRUE, 1, "def")
    IN /\ ret.v = pre.buf[pre.off + pre.pos + 1]
       /\ a.st = "ok" => a.v = <<ret.v>>

(* --------------------------- length under writes ---------------------- *)

(* C29: a write on a stream that grows on demand leaves byteLength at the  *)
(* larger of its old value and the old position plus the bytes written,    *)
(* and leaves every byte outside the written range as it was.              *)
C29_LengthMonotonic ==
  op.name \in {"writeScalar", "writeArray"} /\ pre.dyn /\ ret.st = "ok" =>
    LET end == pre.pos + WriteBytes(op)
    IN /\ byteLength(ds) =
            (IF end > byteLength(pre) THEN end ELSE byteLength(pre))
       /\ \A k \in 1..byteLength(pre) :
            k <= pre.pos \/ k > end => Data(ds)[k] = Data(pre)[k]

(* ----------------------------- count prefix --------------------------- *)

\* The number of values of an unsigned 16-bit integer.
U16Range == 65536

\* Array and string lengths: the short ones and those around U16Range.
CountLens == (0..MaxArr) \cup {U16Range - 1, U16Range, U16Range + 1}

Uint8ArrDef == <<<<"a", TArray("Uint8")>>>>

\* The values of n elements written for descriptor d: a Uint8Array of
\* bytes c, or a string of characters c.
Filled(d, n, c) ==
  LET v == [i \in 1..n |-> c] \o <<>>
  IN IF d = Uint8ArrDef THEN [a |-> v] ELSE [s |-> v]

\* ds = new DataStream(undefined, undefined, le)
InitCount ==
  /\ native \in BOOLEAN
  /\ \E le \in BOOLEAN : ds = newWithCapacity(0, le)
  /\ pre = ds
  /\ op = NoOp
  /\ ret = NoRet
  /\ steps = 0
  /\ pc = "fresh"
  /\ wlog = NoLog

\* ds.write([['a', 'Uint8*']], {a: new Uint8Array(n).fill(c)}) and
\* ds.write([['s', 'Utf8WithLen']], {s: c.repeat(n)})
CWrite ==
  /\ pc = "fresh"
  /\ \E d \in {Uint8ArrDef, Utf8Def} : \E n \in CountLens : \E c \in {104, 105} :
       LET r == write(ds, d, Filled(d, n, c), TRUE)
       IN /\ ds' = r.s
          /\ ret' = Result(r)
          /\ wlog' = [def |-> d, val |-> <<c>>, typed |-> TRUE, n |-> n,
                      st |-> r.st]
  /\ pre' = ds
  /\ op' = [name |-> "write"]
  /\ pc' = "written"
  /\ UNCHANGED <<steps, native>>

\* ds.readUint16() on the reopened stream: the count prefix
CReadCount ==
  /\ pc = "reopened"
  /\ Done(readUint16(ds, "def"), [name |-> "readUint16"])
  /\ pc' = "counted"
  /\ UNCHANGED steps

NextCount == CWrite \/ RTReopen \/ CReadCount

SpecCount == InitCount /\ [][NextCount]_vars

(* C30: the 2-byte count that write puts before an array or a Utf8WithLen  *)
(* string equals the number of elements or UTF-8 bytes that follow it; a   *)
(* length of U16Range or more is rejected, never written as a count        *)
(* reduced modulo U16Range.                                                *)
C30_CountPrefix ==
  /\ pc = "written" /\ wlog.n >= U16Range => ret.st = "throw"
  /\ pc = "counted" =>
       /\ ret.st = "ok"
       /\ ret.v = wlog.n
       /\ byteLength(ds) = Width("Uint16") + wlog.n

====
